---- MODULE Spec2Model ----
(***************************************************************************)
(* pbmon: a pastebin monitor.  Three versions of PastebinMonitor live in   *)
(* the repository and are modelled side by side:                           *)
(*   "file"  - cursor persisted in a state file   (src/unnamed/part_001,   *)
(*             lines 144-365)                                              *)
(*   "mem"   - cursor kept in memory only          (src/unnamed/part_001,  *)
(*             lines 1-142)                                                *)
(*   "cache" - bigcache of key -> date             (src/pbmon.go)          *)
(* A string is a sequence of bytes; "" is <<>>; the NUL byte is 0.         *)
(***************************************************************************)
EXTENDS Integers, Sequences, FiniteSets, TLC

VARIABLES
    variant,    \* which PastebinMonitor is running
    pc,         \* position of the process in New / Do
    topKey,     \* PastebinMonitor.topKey
    stateFile,  \* bytes of the file behind PastebinMonitor.stateFile
    offset,     \* read/write offset of the open stateFile handle
    cache,      \* PastebinMonitor.cache: key -> stored bytes (<<>> = no entry)
    recentRes,  \* outcome of p.recent in the current cycle: "none", "err", "ok"
    window,     \* slice returned by p.recent in the current cycle
    pastes,     \* slice returned by fetchNewPastes in the current cycle
    i,          \* loop index over pastes in do / Do (0-based, as in Go)
    calls,      \* keys handed to OnNew in the current cycle, in call order
    err,        \* error returned by New / Do ("nil" while running)
    ticker,     \* TRUE once time.NewTicker has been called in Do
    ticks,      \* ticks buffered in the ticker channel t.C (capacity 1)
    topKey0,    \* p.topKey on entry to the current cycle
    file0,      \* stateFile content on entry to the current cycle
    \* History, kept only by the specifications that need it:
    prev,       \* the cycle the previous process stopped in (SpecCrash)
    nPub,       \* number of pastes the source has published (SpecStream)
    delivered,  \* keys handed to OnNew since Do started (SpecStream)
    initial,    \* key -> Date.String() seen by the first fetch of Do (SpecStream)
    lastWindow  \* window of the cycle completed last (SpecStream)

hist == <<prev, nPub, delivered, initial, lastWindow>>

vars == <<variant, pc, topKey, stateFile, offset, cache, recentRes, window,
          pastes, i, calls, err, ticker, ticks, topKey0, file0,
          prev, nPub, delivered, initial, lastWindow>>

----------------------------------------------------------------------------
(* Bounds of the model *)
MaxKeys == 3        \* distinct paste keys the remote source can publish
MaxWindow == 3      \* recentSize handed to Do of the cursor versions
MaxCacheWindow == 2 \* recentSize handed to Do of the cache version
MaxDate == 2        \* distinct publish dates of one paste

(* Program constants *)
pasteIDLen == 9
NUL == 0

Variants == {"file", "mem", "cache"}
Cursor == {"file", "mem"}
Unset == <<>>

\* Paste keys: key c is the byte c repeated; lengths 9, 8, 7, ... so that keys
\* as long as pasteIDLen and shorter ones both occur.
KeyLen(c) == pasteIDLen - ((c - 1) % pasteIDLen)
Key(c) == [j \in 1..KeyLen(c) |-> c]
Keys == {Key(c) : c \in 1..MaxKeys}
Dates == 1..MaxDate

\* pastebin.Paste, restricted to the fields the monitors read.  Only the
\* cache version reads Date.
Paste(v) == [Key : Keys, Date : IF v = "cache" THEN Dates ELSE {1}]

UniqueKeys(w) == \A a, b \in 1..Len(w) : a # b => w[a].Key # w[b].Key

\* recentSize, the argument of Do.
RecentSize(v) == IF v = "cache" THEN MaxCacheWindow ELSE MaxWindow

\* What p.recent(recentSize) can decode: at most recentSize pastes, newest
\* first, keys unique within the window.
Windows(v) ==
    UNION {{w \in [1..n -> Paste(v)] : UniqueKeys(w)} : n \in 0..RecentSize(v)}

\* paste.Date.String(): the bytes stored in the cache for a date.
DateString(d) == <<d>>

----------------------------------------------------------------------------
(* Pure helpers of the cursor versions *)

\* The scan of fetchNewPastes: matchPos starts at len(pastes)-1 and every
\* index whose key equals topKey overwrites it (no break).  n is the 1-based
\* index examined next, m the 0-based matchPos so far.
RECURSIVE MatchScan(_, _, _, _)
MatchScan(w, top, n, m) ==
    IF n > Len(w) THEN m
    ELSE MatchScan(w, top, n + 1, IF w[n].Key = top THEN n - 1 ELSE m)

\* Variant of MatchPos that starts the scan at len(pastes): nothing is
\* dropped when the marker is missing.
MatchPosKeepAll(w, top) == MatchScan(w, top, 1, Len(w))

MatchPos(w, top) == MatchScan(w, top, 1, Len(w) - 1)

\* Variant of NewPastes with the slice bound off by one: the paste at the
\* marker's position is returned too.
NewPastesInclusive(w, top) == SubSeq(w, 1, MatchPos(w, top) + 1)

\* pastes[0:matchPos]
NewPastes(w, top) == SubSeq(w, 1, MatchPos(w, top))

\* Variant of FirstRunKey that takes the oldest paste of the window.
FirstRunKeyOldest(w) == w[Len(w)].Key

\* The key fetchNewPastes stores on a first run.
FirstRunKey(w) == w[1].Key

\* Variant of TopKeyAfterDetect that leaves the marker where it was.
TopKeyStale(v, w, top) == top

\* p.topKey when fetchNewPastes returns on a set marker: the in-memory
\* version assigns pastes[0].Key, the file version leaves it to do.
TopKeyAfterDetect(v, w, top) == IF v = "mem" THEN w[1].Key ELSE top

\* fetchNewPastes past the empty-window check: the first-run branch, or the
\* scan for the marker.  The result is the returned slice and p.topKey.
DetectNew(v, w, top) ==
    IF top = Unset
    THEN [err |-> "nil", pastes |-> <<>>, topKey |-> FirstRunKey(w)]
    ELSE [err |-> "nil", pastes |-> NewPastes(w, top),
          topKey |-> TopKeyAfterDetect(v, w, top)]

\* Variant of FetchNewPastes without the empty-window check.
FetchNewPastesLenient(v, w, top) ==
    IF Len(w) = 0
    THEN [err |-> "nil", pastes |-> <<>>, topKey |-> top]
    ELSE DetectNew(v, w, top)

\* fetchNewPastes of the cursor versions on the decoded window w.
FetchNewPastes(v, w, top) ==
    IF Len(w) = 0
    THEN [err |-> "no pastes available", pastes |-> <<>>, topKey |-> top]
    ELSE DetectNew(v, w, top)

\* Variant of FirstIndex: the file version's loop started at index 0.
FirstIndexZero(v, n) == 0

\* Loop order over the new pastes.  do (file) runs i from len-1 down to 0,
\* Do (mem, cache) ranges from 0 up.
FirstIndex(v, n) == IF v = "file" THEN n - 1 ELSE 0
NextIndex(v, k) == IF v = "file" THEN k - 1 ELSE k + 1
InRange(k, n) == 0 <= k /\ k < n

----------------------------------------------------------------------------
(* The state file *)

Min(a, b) == IF a < b THEN a ELSE b

\* readState: Read into a zeroed buffer of pasteIDLen bytes from the handle's
\* offset; io.EOF gives "", otherwise the whole buffer becomes the string.
BytesRead(data, off) == IF off >= Len(data) THEN 0 ELSE Min(pasteIDLen, Len(data) - off)
ReadState(data, off) ==
    IF BytesRead(data, off) = 0 THEN Unset
    ELSE [j \in 1..pasteIDLen |->
            IF j <= BytesRead(data, off) THEN data[off + j] ELSE NUL]

\* Variant of Truncated that keeps the content (the Truncate call left out).
TruncatedNoop(data) == data

\* stateFile.Truncate(0): the content is dropped, the offset is not moved.
Truncated(data) == <<>>

\* stateFile.WriteString(s) at offset off, of which n bytes reach the file:
\* a hole before off reads as NUL, bytes after the written range are kept.
WriteAt(data, off, s, n) ==
    [j \in 1..(IF off + n > Len(data) THEN off + n ELSE Len(data)) |->
        IF j > off /\ j <= off + n THEN s[j - off]
        ELSE IF j <= Len(data) THEN data[j] ELSE NUL]

----------------------------------------------------------------------------
(* The cache version's classification *)

NoEntry == <<>>
EmptyCache == [k \in Keys |-> NoEntry]

\* Variant of IsNew that takes only a missing entry for new: a changed date
\* is not looked at.
IsNewAbsentOnly(c, p) == c[p.Key] = NoEntry

\* Variant of IsNew that takes every paste of the window for new.
IsNewAlways(c, p) == TRUE

\* One iteration of the loop of fetchNewPastes: Get, compare with
\* Date.String(), Set and append when absent or different.
IsNew(c, p) == c[p.Key] = NoEntry \/ c[p.Key] # DateString(p.Date)

\* The loop over the first n pastes of w: the cache and newPastes after it.
RECURSIVE CacheScan(_, _, _)
CacheScan(w, c, n) ==
    IF n = 0 THEN [cache |-> c, new |-> <<>>]
    ELSE LET r == CacheScan(w, c, n - 1)
             p == w[n]
         IN  IF IsNew(r.cache, p)
             THEN [cache |-> [r.cache EXCEPT ![p.Key] = DateString(p.Date)],
                   new |-> Append(r.new, p)]
             ELSE r

----------------------------------------------------------------------------
(* Initial state: a freshly started process, no state file yet *)

\* Keys whose OnNew call of the current cycle has returned nil.
OkCalls == IF err = "OnNew" THEN SubSeq(calls, 1, Len(calls) - 1) ELSE calls
OkKeys == {OkCalls[n] : n \in 1..Len(OkCalls)}

\* No process has stopped before this one.
NoPrev == [valid |-> FALSE, batch |-> <<>>, ok |-> {}, file0 |-> <<>>]

Init ==
    /\ variant \in Variants
    /\ pc = "new"
    /\ topKey = Unset
    /\ stateFile = <<>>
    /\ offset = 0
    /\ cache = EmptyCache
    /\ recentRes = "none"
    /\ window = <<>>
    /\ pastes = <<>>
    /\ i = 0
    /\ calls = <<>>
    /\ err = "nil"
    /\ ticker = FALSE
    /\ ticks = 0
    /\ topKey0 = Unset
    /\ file0 = <<>>
    /\ prev = NoPrev
    /\ nPub = 0
    /\ delivered = {}
    /\ initial = EmptyCache
    /\ lastWindow = <<>>

\* Variant of Fail: the error is recorded and the loop waits for the next
\* tick instead of returning.
FailContinue(e) == pc' = "wait" /\ err' = e

\* Do returns e.
Fail(e) == pc' = "returned" /\ err' = e

\* The loop over pastes is left (or never entered): the first call of Do is
\* followed by time.NewTicker, every call by the wait on t.C.
ToWait == pc' = "wait" /\ ticker' = TRUE

----------------------------------------------------------------------------
(* New *)

\* New of the file version: loadState reads the marker from the state file.
NewFile ==
    /\ pc = "new" /\ variant = "file"
    /\ \/ /\ topKey' = ReadState(stateFile, offset)
          /\ offset' = offset + BytesRead(stateFile, offset)
          /\ topKey0' = ReadState(stateFile, offset)
          /\ pc' = "fetch"
          /\ err' = err
       \/ /\ pc' = "exit"
          /\ err' = "read state file"
          /\ UNCHANGED <<topKey, offset, topKey0>>
    /\ UNCHANGED <<variant, stateFile, cache, recentRes, window, pastes, i,
                   calls, ticker, ticks, file0>>
    /\ UNCHANGED hist

\* New of the in-memory version: nothing to load.
NewMem ==
    /\ pc = "new" /\ variant = "mem"
    /\ pc' = "fetch"
    /\ UNCHANGED <<variant, topKey, stateFile, offset, cache, recentRes,
                   window, pastes, i, calls, err, ticker, ticks, topKey0, file0>>
    /\ UNCHANGED hist

\* New of the cache version: bigcache.NewBigCache may fail.
NewCache ==
    /\ pc = "new" /\ variant = "cache"
    /\ \/ pc' = "fetch" /\ err' = err
       \/ pc' = "exit" /\ err' = "bigcache.NewBigCache"
    /\ UNCHANGED <<variant, topKey, stateFile, offset, cache, recentRes,
                   window, pastes, i, calls, ticker, ticks, topKey0, file0>>
    /\ UNCHANGED hist

----------------------------------------------------------------------------
(* fetchNewPastes, with the entry into the dispatch loop that follows it *)

\* Where Do / do goes with the slice ps that fetchNewPastes returned.  The
\* first call of Do in the mem and cache versions discards the slice.
Dispatch(ps) ==
    IF variant # "file" /\ ~ticker
    THEN i' = 0 /\ ToWait
    ELSE /\ i' = FirstIndex(variant, Len(ps))
         /\ IF InRange(FirstIndex(variant, Len(ps)), Len(ps))
            THEN pc' = "getraw" /\ ticker' = ticker
            ELSE ToWait

\* p.recent fails: fetchNewPastes and Do return the error.
FetchRecentError ==
    /\ pc = "fetch"
    /\ recentRes' = "err"
    /\ window' = <<>>
    /\ pastes' = <<>>
    /\ Fail("recent")
    /\ UNCHANGED <<variant, topKey, stateFile, offset, cache, i, calls, ticker,
                   ticks, topKey0, file0>>
    /\ UNCHANGED hist

\* p.recent succeeds with a window w of W; fetchNewPastes of the two cursor
\* versions runs on it and Do / do goes on with its result.
FetchCursorOn(W) ==
    /\ pc = "fetch" /\ variant \in Cursor
    /\ \E w \in W :
        /\ recentRes' = "ok"
        /\ window' = w
        /\ pastes' = FetchNewPastes(variant, w, topKey).pastes
        /\ topKey' = FetchNewPastes(variant, w, topKey).topKey
        /\ IF FetchNewPastes(variant, w, topKey).err # "nil"
           THEN /\ Fail(FetchNewPastes(variant, w, topKey).err)
                /\ UNCHANGED <<i, ticker>>
           ELSE /\ err' = err
                /\ Dispatch(FetchNewPastes(variant, w, topKey).pastes)
    /\ UNCHANGED <<variant, stateFile, offset, cache, calls, ticks, topKey0, file0>>

FetchCursor == FetchCursorOn(Windows(variant)) /\ UNCHANGED hist

\* fetchNewPastes of the cache version on a window w of W: the loop runs
\* over all of w, or cache.Get / cache.Set fails at paste n+1 and the pastes
\* found new so far are returned with the error.
FetchCacheOn(W) ==
    /\ pc = "fetch" /\ variant = "cache"
    /\ \E w \in W :
        /\ recentRes' = "ok"
        /\ window' = w
        /\ \/ /\ cache' = CacheScan(w, cache, Len(w)).cache
              /\ pastes' = CacheScan(w, cache, Len(w)).new
              /\ err' = err
              /\ Dispatch(CacheScan(w, cache, Len(w)).new)
           \/ \E n \in 0..(Len(w) - 1) :
              /\ cache' = CacheScan(w, cache, n).cache
              /\ pastes' = CacheScan(w, cache, n).new
              /\ Fail("bigcache")
              /\ UNCHANGED <<i, ticker>>
    /\ UNCHANGED <<variant, topKey, stateFile, offset, calls, ticks, topKey0,
                   file0>>

FetchCache == FetchCacheOn(Windows(variant)) /\ UNCHANGED hist

----------------------------------------------------------------------------
(* processPaste and the loop around it *)

\* The loop variable moves on after pastes[i]: the next paste, or the wait
\* for the next tick.
Advance ==
    /\ i' = NextIndex(variant, i)
    /\ IF InRange(NextIndex(variant, i), Len(pastes))
       THEN pc' = "getraw" /\ ticker' = ticker
       ELSE ToWait

\* processPaste: p.pbClient.GetRaw(paste.Key).
GetRaw ==
    /\ pc = "getraw"
    /\ \/ pc' = "onnew" /\ err' = err
       \/ Fail("pastebin.GetRaw")
    /\ UNCHANGED <<variant, topKey, stateFile, offset, cache, recentRes,
                   window, pastes, i, calls, ticker, ticks, topKey0, file0>>
    /\ UNCHANGED hist

\* processPaste: p.OnNew(paste, body) is called and returns nil or an error.
OnNewStep ==
    /\ pc = "onnew"
    /\ calls' = Append(calls, pastes[i + 1].Key)
    /\ \/ /\ err' = err
          /\ IF variant = "file"
             THEN pc' = "truncate" /\ UNCHANGED <<i, ticker>>
             ELSE Advance
       \/ /\ Fail("OnNew")
          /\ UNCHANGED <<i, ticker>>
    /\ UNCHANGED <<variant, topKey, stateFile, offset, cache, recentRes,
                   window, pastes, ticks, topKey0, file0>>

OnNew == OnNewStep /\ UNCHANGED hist

\* do: p.stateFile.Truncate(0).
Truncate ==
    /\ pc = "truncate"
    /\ \/ /\ stateFile' = Truncated(stateFile)
          /\ pc' = "seek" /\ err' = err
       \/ /\ Fail("truncate")
          /\ stateFile' = stateFile
    /\ UNCHANGED <<variant, topKey, offset, cache, recentRes, window, pastes,
                   i, calls, ticker, ticks, topKey0, file0>>
    /\ UNCHANGED hist

\* do: p.stateFile.Seek(0, 0).
Seek ==
    /\ pc = "seek"
    /\ \/ /\ offset' = 0
          /\ pc' = "write" /\ err' = err
       \/ /\ Fail("seek")
          /\ offset' = offset
    /\ UNCHANGED <<variant, topKey, stateFile, cache, recentRes, window,
                   pastes, i, calls, ticker, ticks, topKey0, file0>>
    /\ UNCHANGED hist

\* do: p.stateFile.WriteString(pastes[i].Key).  A failing write may have
\* put any proper prefix of the key into the file.
WriteString ==
    /\ pc = "write"
    /\ LET key == pastes[i + 1].Key IN
       \/ /\ stateFile' = WriteAt(stateFile, offset, key, Len(key))
          /\ offset' = offset + Len(key)
          /\ pc' = "settop" /\ err' = err
       \/ \E n \in 0..(Len(key) - 1) :
          /\ stateFile' = WriteAt(stateFile, offset, key, n)
          /\ offset' = offset + n
          /\ Fail("save state")
    /\ UNCHANGED <<variant, topKey, cache, recentRes, window, pastes, i,
                   calls, ticker, ticks, topKey0, file0>>
    /\ UNCHANGED hist

\* do: p.topKey = pastes[i].Key, then i--.
SetTopKey ==
    /\ pc = "settop"
    /\ topKey' = pastes[i + 1].Key
    /\ Advance
    /\ UNCHANGED <<variant, stateFile, offset, cache, recentRes, window,
                   pastes, calls, err, ticks, topKey0, file0>>
    /\ UNCHANGED hist

----------------------------------------------------------------------------
(* The ticker *)

\* Variant of Tick with a channel that queues every tick.
TickQueue ==
    /\ ticker
    /\ ticks < 3
    /\ ticks' = ticks + 1
    /\ UNCHANGED <<variant, pc, topKey, stateFile, offset, cache, recentRes,
                   window, pastes, i, calls, err, ticker, topKey0, file0>>
    /\ UNCHANGED hist

\* The runtime sends on t.C; the channel holds one tick, a tick that finds
\* it full is dropped.
Tick ==
    /\ ticker
    /\ ticks' = 1
    /\ UNCHANGED <<variant, pc, topKey, stateFile, offset, cache, recentRes,
                   window, pastes, i, calls, err, ticker, topKey0, file0>>
    /\ UNCHANGED hist

\* for range t.C: receive a tick and start the next cycle; the locals of the
\* cycle before are gone.
WaitStep ==
    /\ pc = "wait"
    /\ ticks = 1
    /\ ticks' = 0
    /\ pc' = "fetch"
    /\ recentRes' = "none"
    /\ window' = <<>>
    /\ pastes' = <<>>
    /\ i' = 0
    /\ calls' = <<>>
    /\ topKey0' = topKey
    /\ file0' = stateFile
    /\ UNCHANGED <<variant, topKey, stateFile, offset, cache, err, ticker>>

Wait == WaitStep /\ UNCHANGED hist

----------------------------------------------------------------------------
(* The environment *)

\* bigcache drops an entry older than defaultEvictionDuration.
EvictStep ==
    /\ variant = "cache"
    /\ pc \in {"fetch", "getraw", "onnew", "wait"}
    /\ \E k \in Keys :
        /\ cache[k] # NoEntry
        /\ cache' = [cache EXCEPT ![k] = NoEntry]
    /\ UNCHANGED <<variant, pc, topKey, stateFile, offset, recentRes, window,
                   pastes, i, calls, err, ticker, ticks, topKey0, file0>>

Evict == EvictStep /\ UNCHANGED hist

\* The process ends (Do or New returned, or a crash anywhere) and the
\* program is started again: a new PastebinMonitor, the state file reopened.
RestartStep ==
    /\ pc' = "new"
    /\ topKey' = Unset
    /\ offset' = 0
    /\ cache' = EmptyCache
    /\ recentRes' = "none"
    /\ window' = <<>>
    /\ pastes' = <<>>
    /\ i' = 0
    /\ calls' = <<>>
    /\ err' = "nil"
    /\ ticker' = FALSE
    /\ ticks' = 0
    /\ topKey0' = Unset
    /\ file0' = stateFile
    /\ UNCHANGED <<variant, stateFile>>

Restart == RestartStep /\ UNCHANGED hist

Next ==
    \/ NewFile \/ NewMem \/ NewCache
    \/ FetchRecentError \/ FetchCursor \/ FetchCache
    \/ GetRaw \/ OnNew
    \/ Truncate \/ Seek \/ WriteString \/ SetTopKey
    \/ Tick \/ Wait
    \/ Evict \/ Restart

Spec == Init /\ [][Next]_vars

-----------------------------------------------------------------------------
(* The file version across a stop of the process *)

\* The process is inside the dispatch of a batch: fetchNewPastes returned
\* new pastes and do has not returned nil.
InBatch == variant = "file" /\ recentRes = "ok" /\ pastes # <<>> /\ pc # "wait"

\* The process stops inside a batch, for the first time, and is started
\* again; what the stopped process had reached is remembered: the batch it
\* was dispatching, the keys OnNew had accepted and the state file the cycle
\* started with.
CrashRestart ==
    /\ InBatch /\ ~prev.valid
    /\ RestartStep
    /\ prev' = [valid |-> TRUE, batch |-> pastes, ok |-> OkKeys, file0 |-> file0]
    /\ UNCHANGED <<nPub, delivered, initial, lastWindow>>

\* The next tick is taken; the behaviour is followed up to the end of the
\* first cycle after the stop.
CrashWait ==
    /\ ~prev.valid
    /\ WaitStep
    /\ UNCHANGED hist

\* The window w holds the batch b as it was: the same pastes, next to each
\* other, in the same order, from position off + 1.
BatchAt(w, b) ==
    {off \in 0..(Len(w) - Len(b)) : \A n \in 1..Len(b) : w[off + n] = b[n]}

\* p.recent after the stop: the batch has not left the window.
CrashWindows ==
    IF prev.valid
    THEN {w \in Windows(variant) : BatchAt(w, prev.batch) # {}}
    ELSE Windows(variant)

CrashFetch == FetchCursorOn(CrashWindows) /\ UNCHANGED hist

InitCrash == Init /\ variant = "file"

NextCrash ==
    \/ NewFile
    \/ FetchRecentError \/ CrashFetch
    \/ GetRaw \/ OnNew
    \/ Truncate \/ Seek \/ WriteString \/ SetTopKey
    \/ Tick \/ CrashWait
    \/ CrashRestart

SpecCrash == InitCrash /\ [][NextCrash]_vars

-----------------------------------------------------------------------------
(* The three versions on an append-only stream, one process *)

\* The remote source publishes the next paste: the stream is Key(1), ...,
\* Key(nPub), oldest first, and nothing published is removed.
Publish ==
    /\ nPub < MaxKeys
    /\ nPub' = nPub + 1
    /\ UNCHANGED <<variant, pc, topKey, stateFile, offset, cache, recentRes,
                   window, pastes, i, calls, err, ticker, ticks, topKey0, file0>>
    /\ UNCHANGED <<prev, delivered, initial, lastWindow>>

\* p.recent on the stream: the most recent pastes, at most recentSize of
\* them, newest first.
StreamWindows(v) ==
    {w \in Windows(v) :
        /\ Len(w) <= nPub
        /\ \A n \in 1..Len(w) : w[n].Key = Key(nPub - n + 1)}

\* What is known of the pastes of the first fetch after the window w was
\* fetched: the first fetch records key -> date of its pastes, a later one
\* forgets a paste it shows with another date.
Observed(w, first) ==
    [k \in Keys |->
        IF first
        THEN IF \E n \in 1..Len(w) : w[n].Key = k
             THEN DateString(w[CHOOSE n \in 1..Len(w) : w[n].Key = k].Date)
             ELSE NoEntry
        ELSE IF \E n \in 1..Len(w) :
                    w[n].Key = k /\ DateString(w[n].Date) # initial[k]
             THEN NoEntry
             ELSE initial[k]]

StreamFetchCursor ==
    /\ FetchCursorOn(StreamWindows(variant))
    /\ initial' = IF variant = "mem" THEN Observed(window', ~ticker) ELSE initial
    /\ UNCHANGED <<prev, nPub, delivered, lastWindow>>

StreamFetchCache ==
    /\ FetchCacheOn(StreamWindows(variant))
    /\ initial' = Observed(window', ~ticker)
    /\ UNCHANGED <<prev, nPub, delivered, lastWindow>>

\* OnNew is called: the key it is called with is remembered.
StreamOnNew ==
    /\ OnNewStep
    /\ delivered' = IF variant \in Cursor
                    THEN delivered \cup {pastes[i + 1].Key}
                    ELSE delivered
    /\ UNCHANGED <<prev, nPub, initial, lastWindow>>

\* The next tick is taken: the window of the cycle that ended is remembered.
StreamWait ==
    /\ WaitStep
    /\ lastWindow' = IF variant \in Cursor THEN window ELSE lastWindow
    /\ UNCHANGED <<prev, nPub, delivered, initial>>

\* An evicted entry is a paste of the first fetch no longer.
StreamEvict ==
    /\ EvictStep
    /\ initial' = [k \in Keys |-> IF cache'[k] = NoEntry THEN NoEntry ELSE initial[k]]
    /\ UNCHANGED <<prev, nPub, delivered, lastWindow>>

NextStream ==
    \/ NewFile \/ NewMem \/ NewCache
    \/ FetchRecentError \/ StreamFetchCursor \/ StreamFetchCache
    \/ GetRaw \/ StreamOnNew
    \/ Truncate \/ Seek \/ WriteString \/ SetTopKey
    \/ Tick \/ StreamWait
    \/ StreamEvict \/ Publish

SpecStream == Init /\ [][NextStream]_vars

----------------------------------------------------------------------------
(* Properties *)

\* The current cycle got a window from p.recent.
Fetched == recentRes = "ok"

\* Positions (1-based) of the marker the cycle started with in the window.
MarkerAt == {n \in 1..Len(window) : window[n].Key = topKey0}

\* C1: first run of a cursor version.  A cycle that starts with an unset
\* marker and fetches a non-empty window completes, calls OnNew for nothing,
\* returns no new pastes, and leaves topKey at the key of window[0].
C1_FirstRun ==
    (variant \in Cursor /\ Fetched /\ window # <<>> /\ topKey0 = Unset)
        => /\ pc = "wait"
           /\ err = "nil"
           /\ calls = <<>>
           /\ pastes = <<>>
           /\ topKey = window[1].Key

C1_Witness ==
    /\ variant = "file" /\ Fetched /\ topKey0 = Unset
    /\ Len(window) >= 2 /\ window[1].Key # window[Len(window)].Key
    /\ pc = "wait"

\* C2: marker found.  When the window holds the marker the cycle started
\* with at position i (0-based), fetchNewPastes returns exactly window[0..i),
\* nothing for i = 0.
C2_MarkerFound ==
    (variant \in Cursor /\ Fetched /\ topKey0 # Unset)
        => \A n \in MarkerAt : pastes = SubSeq(window, 1, n - 1)

C2_Witness ==
    /\ variant = "mem" /\ Fetched /\ topKey0 # Unset
    /\ Len(window) = 3 /\ MarkerAt = {3} /\ Len(pastes) = 2

\* C3: marker not found.  When the non-empty window does not hold the (set)
\* marker the cycle started with, fetchNewPastes returns every paste of the
\* window except the oldest one.
C3_MarkerNotFound ==
    (variant \in Cursor /\ Fetched /\ window # <<>> /\ topKey0 # Unset
        /\ MarkerAt = {})
        => /\ pastes = SubSeq(window, 1, Len(window) - 1)
           /\ Len(pastes) = Len(window) - 1

C3_Witness ==
    /\ variant = "mem" /\ Fetched /\ topKey0 \in Keys /\ MarkerAt = {}
    /\ Len(window) = 2 /\ Len(pastes) = 1

\* C4: in the file version, after every cycle that completes without error
\* on a non-empty window, topKey is the key of window[0].
C4_TopKeyIsNewest ==
    (variant = "file" /\ Fetched /\ window # <<>> /\ pc = "wait")
        => topKey = window[1].Key

\* C5: dispatch order of the file version.  The calls of OnNew made so far
\* in a cycle run over the new pastes from the oldest to the newest, and a
\* cycle that completes has made exactly one call per new paste.
C5_DispatchOrderFile ==
    (variant = "file" /\ Fetched)
        => /\ Len(calls) <= Len(pastes)
           /\ \A n \in 1..Len(calls) : calls[n] = window[Len(pastes) - n + 1].Key
           /\ pc = "wait" => Len(calls) = Len(pastes)

C5_Witness ==
    /\ variant = "file" /\ Fetched /\ pc = "wait"
    /\ Len(pastes) = 2 /\ Len(calls) = 2

\* C6: dispatch order of the in-memory version.  A cycle that completes
\* has called OnNew once per new paste, from the oldest to the newest.
C6_DispatchOrderMem ==
    (variant = "mem" /\ Fetched /\ pc = "wait")
        => /\ Len(calls) = Len(pastes)
           /\ \A n \in 1..Len(calls) : calls[n] = window[Len(pastes) - n + 1].Key

\* C7: empty window.  A cursor version that fetches a window of length 0
\* returns "no pastes available" from Do, has called OnNew for nothing, and
\* has left topKey and the state file as they were when the cycle started.
C7_EmptyWindow ==
    (variant \in Cursor /\ Fetched /\ window = <<>>)
        => /\ pc = "returned"
           /\ err = "no pastes available"
           /\ calls = <<>>
           /\ pastes = <<>>
           /\ topKey = topKey0
           /\ stateFile = file0

C7_Witness ==
    /\ variant = "file" /\ Fetched /\ window = <<>>
    /\ topKey0 \in Keys /\ stateFile \in Keys

\* C8: fail loud, all versions.  The step on which an error first occurs
\* ends Do (or New) with that error.  Once Do has returned, the process does
\* nothing but end: no OnNew call, no dispatch of a later paste of the
\* batch, no fetch, no write of the marker, the state file or the cache.
C8_Step ==
    /\ (err = "nil" /\ err' # "nil") => pc' \in {"returned", "exit"}
    /\ pc' = "returned" => err' # "nil"
    /\ pc = "returned" =>
        /\ pc' \in {"returned", "new"}
        /\ pc' = "returned" =>
              UNCHANGED <<calls, topKey, stateFile, offset, cache, recentRes,
                          window, pastes, i, err>>

C8_FailLoud == [][C8_Step]_vars

C8_Witness ==
    /\ variant = "cache" /\ pc = "returned" /\ err = "OnNew"
    /\ Len(pastes) = 2 /\ Len(calls) = 1 /\ ticks = 1

\* C9: partial completion, file version.  When GetRaw or OnNew fails on the
\* j-th paste of a batch in delivery order, topKey and the state file both
\* hold the key of the (j-1)-th paste when Do returns, and for j = 1 both
\* are what they were when the cycle started.
C9_PartialCompletion ==
    (variant = "file" /\ pc = "returned" /\ err \in {"pastebin.GetRaw", "OnNew"})
        => LET done == IF err = "OnNew" THEN Len(calls) - 1 ELSE Len(calls)
           IN  IF done = 0
               THEN topKey = topKey0 /\ stateFile = file0
               ELSE /\ topKey = window[Len(pastes) - done + 1].Key
                    /\ stateFile = window[Len(pastes) - done + 1].Key

C9_Witness ==
    /\ variant = "file" /\ pc = "returned" /\ err = "OnNew"
    /\ Len(pastes) = 2 /\ Len(calls) = 2
    /\ stateFile # file0

\* C10: state-file round trip.  On a start of the file version, New leaves
\* topKey equal to the content of the state file whenever that content is a
\* key that do wrote, or is empty.
C10_RoundTrip ==
    (variant = "file" /\ pc = "fetch" /\ ~ticker /\ stateFile \in Keys \cup {<<>>})
        => topKey = stateFile

\* C18: in the file version, at the end of every cycle that completes
\* without error (first-run cycles and cycles without new pastes included),
\* the content of the state file equals topKey.
C18_FileTracksMarker ==
    (variant = "file" /\ Fetched /\ pc = "wait") => stateFile = topKey

\* C19: the marker never runs ahead of delivery, file version.  The state
\* file holds nothing, what it held when the cycle started, or the key of a
\* paste whose OnNew call has returned nil; it changes only right after such
\* a call and only to that paste's key (or to nothing, by Truncate); topKey
\* moves to a paste's key only once the file holds that key, the first run
\* excepted.
C19_Step ==
    variant = "file" =>
        /\ stateFile' \in {<<>>, file0'} \cup OkKeys'
        /\ stateFile' # stateFile =>
              /\ pc \in {"truncate", "write"}
              /\ OkCalls # <<>>
              /\ stateFile' \in {<<>>, OkCalls[Len(OkCalls)]}
        /\ (topKey' # topKey /\ pc # "new" /\ pc' # "new") =>
              \/ pc = "fetch" /\ topKey = Unset
              \/ pc = "settop" /\ topKey' = stateFile

C19_MarkerBehindDelivery == [][C19_Step]_vars

\* C15: classification of the cache version.  A fetchNewPastes that runs
\* to its end returns a paste of the window as new exactly when the cache
\* holds no entry for its key or an entry that differs from its date, and
\* leaves key -> date in the cache for every paste of the window; so a paste
\* whose recorded date is unchanged (and not evicted) is not new again, and
\* a changed date is new once.  Entries of other keys are not touched.
C15_Step ==
    (variant = "cache" /\ pc = "fetch" /\ recentRes' = "ok" /\ err' = "nil") =>
        /\ \A n \in 1..Len(window') :
              LET p == window'[n] IN
              /\ (\E m \in 1..Len(pastes') : pastes'[m] = p)
                    <=> (cache[p.Key] = NoEntry \/ cache[p.Key] # DateString(p.Date))
              /\ cache'[p.Key] = DateString(p.Date)
        /\ \A m \in 1..Len(pastes') : \E n \in 1..Len(window') : pastes'[m] = window'[n]
        /\ \A a, b \in 1..Len(pastes') : a # b => pastes'[a] # pastes'[b]
        /\ \A k \in Keys :
              (\A n \in 1..Len(window') : window'[n].Key # k) => cache'[k] = cache[k]

C15_CacheClassification == [][C15_Step]_vars

C15_Witness ==
    /\ variant = "cache" /\ Fetched /\ err = "nil" /\ ticker
    /\ Len(window) = 2 /\ Len(pastes) = 1 /\ pastes[1] = window[2]
    /\ pastes[1].Date = 2 /\ pc = "getraw"

\* C16: single logical thread.  The ticker channel never holds more than one
\* tick; a tick that arrives only fills the channel and touches nothing of
\* the cycle in progress; a cycle starts only from New or, with no cycle in
\* progress, by taking the pending tick; OnNew is entered only from the one
\* dispatch position, one call at a time.
C16_Step ==
    /\ ticks' \in {0, 1}
    /\ (ticks' # ticks /\ ticks' = 1) =>
          UNCHANGED <<pc, calls, window, pastes, i, topKey, stateFile, cache>>
    /\ (pc' = "fetch" /\ pc # "fetch") =>
          \/ pc = "new"
          \/ pc = "wait" /\ ticks = 1 /\ ticks' = 0
    /\ Len(calls') > Len(calls) =>
          pc = "onnew" /\ Len(calls') = Len(calls) + 1

C16_SingleThread == [][C16_Step]_vars

C16_Witness ==
    /\ variant = "file" /\ pc = "onnew" /\ ticks = 1 /\ Len(pastes) = 2

\* The first cycle after a stop inside a batch has fetched a window that
\* still holds the batch, and New read the state file back as it is.
AfterCrash ==
    /\ prev.valid /\ Fetched
    /\ topKey0 = file0
    /\ BatchAt(window, prev.batch) # {}

\* OnNew calls of the cycle after the stop for keys OnNew had accepted
\* before it.
Redelivered == {n \in 1..Len(calls) : calls[n] \in prev.ok}

\* C11: at-least-once across a stop.  When the state file is read back as
\* written and the window after the start still holds the batch, at most
\* one paste that OnNew had accepted before the stop is passed to OnNew
\* again.
C11_AtMostOneAgain == AfterCrash => Cardinality(Redelivered) <= 1

C11_Witness ==
    /\ AfterCrash /\ pc = "wait" /\ err = "nil"
    /\ Cardinality(prev.ok) = 2
    /\ Cardinality(Redelivered) = 1

\* C12: no loss across a stop.  When the state file is read back as written
\* and the window after the start holds the whole batch and, behind it, the
\* key that was persisted before the batch, then at the end of that cycle
\* every paste of the batch that OnNew had not accepted before the stop has
\* been passed to OnNew.
C12_NoLossAcrossCrash ==
    (/\ AfterCrash /\ pc = "wait" /\ err = "nil"
     /\ prev.file0 # <<>>
     /\ \E off \in BatchAt(window, prev.batch) :
           \E n \in (off + Len(prev.batch) + 1)..Len(window) :
               window[n].Key = prev.file0)
        => \A m \in 1..Len(prev.batch) :
               prev.batch[m].Key \notin prev.ok
                   => \E n \in 1..Len(calls) : calls[n] = prev.batch[m].Key

\* C13: no duplicates in steady state.  In one process on an append-only
\* stream, a cursor version never calls OnNew with a key it has called
\* OnNew with before.
C13_Step ==
    (variant \in Cursor /\ Len(calls') > Len(calls)) =>
        calls'[Len(calls')] \notin delivered

C13_NoDuplicates == [][C13_Step]_vars

C13_Witness ==
    /\ variant \in Cursor /\ pc = "wait" /\ err = "nil"
    /\ Cardinality(delivered) = 2 /\ Len(calls) = 1 /\ nPub = 3

\* C14: idempotence of a cycle.  A cursor version whose cycle on a
\* non-empty window has ended, with whatever marker it started from, finds
\* nothing new when the next cycle fetches the same window: no paste is
\* returned, OnNew is not called and the marker stays.
C14_Step ==
    (/\ variant \in Cursor /\ pc = "fetch" /\ recentRes' = "ok"
     /\ lastWindow # <<>> /\ window' = lastWindow)
        => /\ pastes' = <<>>
           /\ pc' = "wait"
           /\ calls' = <<>>
           /\ topKey' = topKey

C14_Idempotent == [][C14_Step]_vars

C14_Witness ==
    /\ variant \in Cursor /\ pc = "wait" /\ Fetched
    /\ window = lastWindow /\ Len(window) = 2
    /\ window[1].Key \in delivered

\* C17: the first fetch is not reported.  The in-memory and the cache
\* version call OnNew only in a cycle that a tick started, and never with a
\* paste of the first fetch whose date is the one the first fetch showed
\* and, in the cache version, whose entry has not been evicted.
C17_Step ==
    variant \in {"mem", "cache"} =>
        /\ ~ticker' => calls' = <<>>
        /\ Len(calls') > Len(calls) =>
              /\ ticker
              /\ initial[pastes[i + 1].Key] # DateString(pastes[i + 1].Date)

====
